---------------------------- MODULE Spec2Model ----------------------------
(***************************************************************************)
(* A model of the markdown-to-docx conversion service (src/index.js):      *)
(*   - isMarkdownContent, the regular-expression classifier;               *)
(*   - htmlToGoogleDocsStructure, the HTML -> edit-operation transformer;  *)
(*   - the express routes /api/docs, /api/convert, /api/download-zip       *)
(*     behind the authenticateGoogle middleware, with the module-level     *)
(*     oauth2Client and global.convertedZip they share.                    *)
(* Texts are sequences of characters; the backquote is written "BQ".        *)
(***************************************************************************)
EXTENDS Integers, Sequences, FiniteSets, TLC

VARIABLES
    \* ---- classifier (isMarkdownContent) ----
    content,          \* the argument of isMarkdownContent
    matchedPatterns,  \* names of the patterns whose test() returned true
    verdict,          \* the value the last call returned (FALSE before any call)
    ncalls,           \* number of calls made on this content
    lastIndex,        \* lastIndex of the RegExp objects of markdownPatterns
    docContent,       \* the body of the document handed to extractDocumentContent
    extracted,        \* extractDocumentContent has returned content
    \* ---- transformer (htmlToGoogleDocsStructure) ----
    html,             \* the parsed document: the sequence of its top-level nodes
    requests,         \* const requests = []
    currentIndex,     \* let currentIndex = 1
    loops,            \* the calls each of the five forEach loops makes, in order
    phase,            \* which of the five getElementsByTagName loops is running
    pos,              \* iterations of that loop already made
    emitted,          \* document-order ids of the elements whose text was inserted
    earlier,          \* the cursor at the return of each earlier call, in call order
    \* ---- server (express routes) ----
    driveFiles,       \* the Google Docs files of the Drive before any conversion
    createdDocs,      \* titles of the documents made by docs.documents.create, in order
    oauthCreds,       \* credentials held by the module-level oauth2Client
    convertedZip,     \* global.convertedZip
    httpReqs,         \* per client, the HTTP request it sent last
    reqsLeft,         \* HTTP requests the clients still send
    faultsLeft,       \* remote calls that still throw for a reason of their own
    lastConvert       \* convertedFiles of the last /api/convert answered 200

clsVars == <<content, matchedPatterns, verdict, ncalls, lastIndex, docContent, extracted>>
trVars == <<html, loops, requests, currentIndex, phase, pos, emitted, earlier>>
srvVars == <<driveFiles, createdDocs, oauthCreds, convertedZip, httpReqs, reqsLeft, faultsLeft,
            lastConvert>>

vars == <<clsVars, trVars, srvVars>>

-----------------------------------------------------------------------------
(* Bounds *)

\* longest free tail appended to a seed text
MaxTextLen == 3
\* calls of isMarkdownContent made on one text
MaxCalls == 2
\* top-level elements of an HTML document
MaxElems == 3
\* calls of htmlToGoogleDocsStructure made one after the other
MaxTransforms == 2
\* files in the Drive when one batch is run alone
MaxDocs == 3
\* remote calls that throw for a reason of their own when one batch is run alone
MaxFaults == 2
\* HTTP requests the two clients send when they run together
MaxReqs == 3
\* files in the Drive when the two clients run together
MaxServerDocs == 1
\* top-level structural elements of a document body handed to the extractor
MaxBlocks == 2

-----------------------------------------------------------------------------
(* Characters and texts *)

\* JavaScript line terminators present in the alphabet ('.' does not match them)
LineTerminators == {"\n"}
\* characters matched by \s
WhiteSpace == {" ", "\n"}
Digits == {"1"}

Alphabet == {"#", " ", "\n", "a", "*", "-", "|", "BQ", ">"}

RECURSIVE SeqsUpTo(_, _)
SeqsUpTo(S, n) ==
    IF n = 0 THEN {<<>>}
    ELSE LET shorter == SeqsUpTo(S, n - 1)
         IN  shorter \cup {Append(s, c) : s \in {x \in shorter : Len(x) = n - 1}, c \in S}

\* longer texts that make the link, fence and ordered-list patterns reachable,
\* and a first character that puts the free tail in the middle of a line
SeedTexts ==
    { <<>>,
      <<"[", "a", "]", "(", "b", ")">>,
      <<"BQ", "BQ", "BQ", "BQ", "BQ", "BQ">>,
      <<"1", ".", " ", "a">>,
      <<"a">> }

Texts == {s \o t : s \in SeedTexts, t \in SeqsUpTo(Alphabet, MaxTextLen)}

-----------------------------------------------------------------------------
(* Regular expressions of isMarkdownContent, as JavaScript evaluates them   *)

At(t, i) == IF i >= 1 /\ i <= Len(t) THEN t[i] ELSE "<eof>"

\* the dot: any character except a line terminator
IsDot(t, i) == i >= 1 /\ i <= Len(t) /\ t[i] \notin LineTerminators
IsSpace(t, i) == At(t, i) \in WhiteSpace

\* ^ under the m flag: start of input or just after a line terminator
LineStart(t, i) == i = 1 \/ (i > 1 /\ i <= Len(t) + 1 /\ t[i - 1] \in LineTerminators)
\* $ under the m flag, tested at the position after the last matched char
LineEnd(t, i) == i = Len(t) + 1 \/ (i >= 1 /\ i <= Len(t) /\ t[i] \in LineTerminators)

\* every position of i..j is matched by the dot
AllDot(t, i, j) == \A k \in i..j : IsDot(t, k)

\* a slip: the heading pattern is anchored at the start of a line
MatchHeadersAnchored(t) ==
    \E i \in 1..Len(t) :
        LineStart(t, i) /\ t[i] = "#" /\ IsSpace(t, i + 1) /\ IsDot(t, i + 2)

\* /#\s.+/m
MatchHeaders(t) ==
    \E i \in 1..Len(t) : t[i] = "#" /\ IsSpace(t, i + 1) /\ IsDot(t, i + 2)

\* /^[-*+]\s.+/m
MatchLists(t) ==
    \E i \in 1..Len(t) :
        LineStart(t, i) /\ t[i] \in {"-", "*", "+"} /\ IsSpace(t, i + 1) /\ IsDot(t, i + 2)

\* /^\d+\.\s.+/m
MatchNumberedLists(t) ==
    \E i \in 1..Len(t) : \E j \in (i + 1)..Len(t) :
        /\ LineStart(t, i)
        /\ \A k \in i..(j - 1) : t[k] \in Digits
        /\ t[j] = "." /\ IsSpace(t, j + 1) /\ IsDot(t, j + 2)

Fence(t, i) == At(t, i) = "BQ" /\ At(t, i + 1) = "BQ" /\ At(t, i + 2) = "BQ"

\* codeBlocks: three backquotes, [\s\S]*? , three backquotes
MatchCodeBlocks(t) ==
    \E i \in 1..Len(t) : \E j \in (i + 3)..Len(t) : Fence(t, i) /\ Fence(t, j)

\* inlineCode: backquote, one or more non-backquotes, backquote
MatchInlineCode(t) ==
    \E i \in 1..Len(t) : \E j \in (i + 2)..Len(t) :
        t[i] = "BQ" /\ t[j] = "BQ" /\ \A k \in (i + 1)..(j - 1) : t[k] # "BQ"

\* /(\*\*|\*|__|_)/
MatchEmphasis(t) == \E i \in 1..Len(t) : t[i] \in {"*", "_"}

\* /\[.+?\]\(.+?\)/
MatchLinks(t) ==
    \E i \in 1..Len(t) : \E j \in (i + 2)..Len(t) : \E k \in (j + 3)..Len(t) :
        /\ t[i] = "[" /\ AllDot(t, i + 1, j - 1)
        /\ t[j] = "]" /\ t[j + 1] = "(" /\ AllDot(t, j + 2, k - 1)
        /\ t[k] = ")"

\* /^>\s.+/m
MatchBlockquotes(t) ==
    \E i \in 1..Len(t) : LineStart(t, i) /\ t[i] = ">" /\ IsSpace(t, i + 1) /\ IsDot(t, i + 2)

\* /\|.+\|/
MatchTables(t) ==
    \E i \in 1..Len(t) : \E j \in (i + 2)..Len(t) :
        t[i] = "|" /\ t[j] = "|" /\ AllDot(t, i + 1, j - 1)

\* /^[-*_]{3,}$/m
MatchHorizontalRules(t) ==
    \E i \in 1..Len(t) : \E j \in (i + 2)..Len(t) :
        /\ LineStart(t, i)
        /\ \A k \in i..j : t[k] \in {"-", "*", "_"}
        /\ LineEnd(t, j + 1)

PatternNames ==
    {"headers", "lists", "numberedLists", "codeBlocks", "inlineCode", "emphasis",
     "links", "blockquotes", "tables", "horizontalRules"}

\* markdownPatterns[name].test(content)
PatternTest(name, t) ==
    CASE name = "headers"         -> MatchHeaders(t)
      [] name = "lists"           -> MatchLists(t)
      [] name = "numberedLists"   -> MatchNumberedLists(t)
      [] name = "codeBlocks"      -> MatchCodeBlocks(t)
      [] name = "inlineCode"      -> MatchInlineCode(t)
      [] name = "emphasis"        -> MatchEmphasis(t)
      [] name = "links"           -> MatchLinks(t)
      [] name = "blockquotes"     -> MatchBlockquotes(t)
      [] name = "tables"          -> MatchTables(t)
      [] name = "horizontalRules" -> MatchHorizontalRules(t)

\* the keys of markdownPatterns in the order of Object.entries
PatternOrder ==
    <<"headers", "lists", "numberedLists", "codeBlocks", "inlineCode", "emphasis",
      "links", "blockquotes", "tables", "horizontalRules">>

\* the object literal is evaluated at every call: ten new RegExp objects,
\* each with lastIndex 0
NewPatterns == [name \in PatternNames |-> 0]

\* a slip: the patterns carry the g flag, so test() searches from lastIndex
\* and leaves the end of the match there
RegExpTestGlobal(name, t, li) ==
    LET found == PatternTest(name, SubSeq(t, li + 1, Len(t)))
    IN  [found |-> found, lastIndex |-> IF found THEN Len(t) ELSE 0]

\* pattern.test(content) of a RegExp without g or y flag: the search starts
\* at 0 and lastIndex is not written
RegExpTest(name, t, li) == [found |-> PatternTest(name, t), lastIndex |-> li]

RECURSIVE FilterEntries(_, _, _)
\* Object.entries(markdownPatterns).filter(([name, pattern]) => pattern.test(content)):
\* the names kept and the patterns as the tests leave them
FilterEntries(order, t, patterns) ==
    IF order = <<>> THEN [matched |-> {}, patterns |-> patterns]
    ELSE LET name == Head(order)
             r == RegExpTest(name, t, patterns[name])
             rest == FilterEntries(Tail(order), t,
                                   [patterns EXCEPT ![name] = r.lastIndex])
         IN  [matched |-> (IF r.found THEN {name} ELSE {}) \cup rest.matched,
              patterns |-> rest.patterns]

RECURSIVE TestUntilFound(_, _, _)
\* a || chain of test() calls on the patterns named: the tests after the
\* first true one are not made
TestUntilFound(names, t, patterns) ==
    IF names = <<>> THEN [found |-> FALSE, patterns |-> patterns]
    ELSE LET name == Head(names)
             r == RegExpTest(name, t, patterns[name])
             after == [patterns EXCEPT ![name] = r.lastIndex]
         IN  IF r.found THEN [found |-> TRUE, patterns |-> after]
             ELSE TestUntilFound(Tail(names), t, after)

MatchedPatterns(t) == FilterEntries(PatternOrder, t, NewPatterns).matched

\* the second round of tests, on the pattern objects the filter used
ImportantTests(t) ==
    TestUntilFound(<<"headers", "lists", "emphasis">>, t,
                   FilterEntries(PatternOrder, t, NewPatterns).patterns)

HasImportantPatterns(t) == ImportantTests(t).found

\* a slip: one signal of any kind is enough
IsMarkdownContentAnySignal(t) ==
    Cardinality(MatchedPatterns(t)) >= 1 \/ HasImportantPatterns(t)

\* a slip: three signals are required when none is important
IsMarkdownContentThreeSignals(t) ==
    Cardinality(MatchedPatterns(t)) >= 3 \/ HasImportantPatterns(t)

\* a slip: the important tier is negated
IsMarkdownContentNegatedTier(t) ==
    Cardinality(MatchedPatterns(t)) >= 2 \/ ~HasImportantPatterns(t)

\* a slip of the decision rule: both tiers required
IsMarkdownContentBothTiers(t) ==
    Cardinality(MatchedPatterns(t)) >= 2 /\ HasImportantPatterns(t)

\* return matchedPatterns.length >= 2 || hasImportantPatterns
IsMarkdownContent(t) ==
    Cardinality(MatchedPatterns(t)) >= 2 \/ HasImportantPatterns(t)

-----------------------------------------------------------------------------
(* Specification of the classifier: a text is chosen, then classified       *)

ClassifierIdle ==
    /\ content = <<>>
    /\ matchedPatterns = {}
    /\ verdict = FALSE
    /\ ncalls = 0
    /\ lastIndex = NewPatterns
    /\ docContent = [present |-> FALSE, content |-> <<>>]
    /\ extracted = FALSE

NoZip == [present |-> FALSE, entries |-> <<>>]
NoConvert == [any |-> FALSE, convertedFiles |-> <<>>]

ServerIdle ==
    /\ driveFiles = <<>>
    /\ createdDocs = <<>>
    /\ oauthCreds = "unset"
    /\ convertedZip = NoZip
    /\ httpReqs = <<>>
    /\ reqsLeft = 0
    /\ faultsLeft = 0
    /\ lastConvert = NoConvert

TransformerIdle ==
    /\ html = <<>>
    /\ loops = <<>>
    /\ requests = <<>>
    /\ currentIndex = 1
    /\ phase = 6
    /\ pos = 0
    /\ emitted = <<>>
    /\ earlier = <<>>

InitClassify ==
    /\ content \in Texts
    /\ matchedPatterns = {}
    /\ verdict = FALSE
    /\ ncalls = 0
    /\ lastIndex = NewPatterns
    /\ docContent = [present |-> FALSE, content |-> <<>>]
    /\ extracted = FALSE
    /\ TransformerIdle
    /\ ServerIdle

\* one call of isMarkdownContent(content); lastIndex is that of the pattern
\* objects the call made
Classify ==
    /\ ncalls < MaxCalls
    /\ matchedPatterns' = MatchedPatterns(content)
    /\ verdict' = IsMarkdownContent(content)
    /\ lastIndex' = ImportantTests(content).patterns
    /\ ncalls' = ncalls + 1
    /\ UNCHANGED <<content, docContent, extracted, trVars, srvVars>>

NextClassify == Classify

SpecClassify == InitClassify /\ [][NextClassify]_vars

ImportantPatterns == {"headers", "lists", "emphasis"}

\* some line of t matches ^#\s.+
HasHeadingLine(t) ==
    \E i \in 1..Len(t) : LineStart(t, i) /\ t[i] = "#" /\ IsSpace(t, i + 1) /\ IsDot(t, i + 2)

\* C1: isMarkdownContent returns true if and only if at least two of the ten
\* patterns match the text or at least one of headers, lists, emphasis matches;
\* every text with a line matching ^#\s.+ is classified true.
C1_DecisionRule ==
    ncalls > 0 =>
        /\ verdict = (Cardinality(matchedPatterns) >= 2
                      \/ matchedPatterns \cap ImportantPatterns # {})
        /\ matchedPatterns = {n \in PatternNames : PatternTest(n, content)}
        /\ (HasHeadingLine(content) => verdict = TRUE)

\* a heading line alone, and two unimportant signals without an important one,
\* both occur among the classified texts
C1_Witness ==
    /\ ncalls > 0
    /\ verdict = TRUE
    /\ HasHeadingLine(content)
    /\ matchedPatterns = {"headers"}

C1_WitnessTwoSignals ==
    /\ ncalls > 0
    /\ verdict = TRUE
    /\ Cardinality(matchedPatterns) >= 2
    /\ matchedPatterns \cap ImportantPatterns = {}

-----------------------------------------------------------------------------
(* The DOM that DOMParser.parseFromString returns                           *)

\* a text node and an element node
Txt(t) == [tag |-> "#text", text |-> t, kids |-> <<>>]
El(tag, kids) == [tag |-> tag, text |-> <<>>, kids |-> kids]

RECURSIVE TextContentOfAll(_)
\* node.textContent: the texts of the descendants, concatenated in document order
TextContent(n) == IF n.tag = "#text" THEN n.text ELSE TextContentOfAll(n.kids)
TextContentOfAll(ns) ==
    IF ns = <<>> THEN <<>> ELSE TextContent(Head(ns)) \o TextContentOfAll(Tail(ns))

RECURSIVE CountElements(_)
\* number of element nodes in the subtrees of ns
CountElements(ns) ==
    IF ns = <<>> THEN 0
    ELSE (IF Head(ns).tag = "#text" THEN 0 ELSE 1 + CountElements(Head(ns).kids))
         + CountElements(Tail(ns))

RECURSIVE Preorder(_, _)
\* the element nodes of the subtrees of ns in document (depth-first pre-order)
\* order, numbered from first
Preorder(ns, first) ==
    IF ns = <<>> THEN <<>>
    ELSE LET n == Head(ns)
         IN  IF n.tag = "#text" THEN Preorder(Tail(ns), first)
             ELSE <<[id |-> first, node |-> n]>>
                  \o Preorder(n.kids, first + 1)
                  \o Preorder(Tail(ns), first + 1 + CountElements(n.kids))

\* doc.getElementsByTagName(tag)
DocElementsByTagName(doc, tag) ==
    SelectSeq(Preorder(doc, 1), LAMBDA e : e.node.tag = tag)

\* element.getElementsByTagName(tag): the descendants of e, not e itself
ElementsByTagName(e, tag) ==
    SelectSeq(Preorder(e.node.kids, e.id + 1), LAMBDA d : d.node.tag = tag)

\* sample texts: one character, two characters, blank
TextA == <<"A">>
TextBc == <<"B", "c">>
TextBlank == <<" ">>

LeafElements ==
    {El("p", <<Txt(t)>>) : t \in {TextA, TextBc, TextBlank}}
    \cup {El("h1", <<Txt(TextBc)>>), El("h2", <<Txt(TextA)>>),
          El("pre", <<Txt(TextA)>>), El("h3", <<Txt(TextA)>>)}

ListElements ==
    { El("ul", <<El("li", <<Txt(TextA)>>)>>),
      El("ul", <<El("li", <<Txt(TextA)>>), El("li", <<Txt(TextBc)>>)>>),
      El("ul", <<El("li", <<Txt(TextBlank)>>), El("li", <<El("p", <<Txt(TextA)>>)>>)>>),
      El("ul", <<El("li", <<Txt(TextA), El("ul", <<El("li", <<Txt(TextBc)>>)>>)>>)>>),
      El("ol", <<El("li", <<Txt(TextA)>>), El("li", <<Txt(TextBc)>>)>>) }

QuoteElements == { El("blockquote", <<El("p", <<Txt(TextBc)>>)>>) }

ElementPool == LeafElements \cup ListElements \cup QuoteElements

\* <h1>Title</h1><p>Body</p>
TitleBodyDoc ==
    << El("h1", <<Txt(<<"T", "i", "t", "l", "e">>)>>),
       El("p", <<Txt(<<"B", "o", "d", "y">>)>>) >>

HtmlDocs == SeqsUpTo(ElementPool, MaxElems) \cup {TitleBodyDoc}

-----------------------------------------------------------------------------
(* htmlToGoogleDocsStructure                                                *)

\* !text || !text.trim()
IsBlank(text) == \A i \in 1..Len(text) : text[i] \in WhiteSpace

InsertText(index, text) == [op |-> "insertText", index |-> index, text |-> text]
UpdateTextStyle(s, e, style) ==
    [op |-> "updateTextStyle", startIndex |-> s, endIndex |-> e, style |-> style]
UpdateParagraphStyle(s, e, style) ==
    [op |-> "updateParagraphStyle", startIndex |-> s, endIndex |-> e, style |-> style]

\* a slip: the cursor is advanced before the style ranges are computed
AddFormattedTextAdvanceFirst(reqs, index, text, textStyle, paragraphStyle) ==
    IF IsBlank(text) THEN [requests |-> reqs, currentIndex |-> index]
    ELSE LET after == index + Len(text) + 1
         IN  [requests |->
                 reqs \o <<InsertText(index, text \o <<"\n">>)>>
                 \o (IF textStyle # {}
                     THEN <<UpdateTextStyle(after, after + Len(text), textStyle)>>
                     ELSE <<>>)
                 \o (IF paragraphStyle # {}
                     THEN <<UpdateParagraphStyle(after, after + Len(text), paragraphStyle)>>
                     ELSE <<>>),
              currentIndex |-> after]

\* a slip: the trailing newline is not counted
AddFormattedTextNoNewline(reqs, index, text, textStyle, paragraphStyle) ==
    IF IsBlank(text) THEN [requests |-> reqs, currentIndex |-> index]
    ELSE [requests |->
             reqs \o <<InsertText(index, text \o <<"\n">>)>>
             \o (IF textStyle # {}
                 THEN <<UpdateTextStyle(index, index + Len(text), textStyle)>>
                 ELSE <<>>)
             \o (IF paragraphStyle # {}
                 THEN <<UpdateParagraphStyle(index, index + Len(text), paragraphStyle)>>
                 ELSE <<>>),
          currentIndex |-> index + Len(text)]

\* addFormattedText(text, textStyle, paragraphStyle) run on the closure
\* variables requests and currentIndex; a style is its set of attributes
AddFormattedText(reqs, index, text, textStyle, paragraphStyle) ==
    IF IsBlank(text) THEN [requests |-> reqs, currentIndex |-> index]
    ELSE [requests |->
             reqs \o <<InsertText(index, text \o <<"\n">>)>>
             \o (IF textStyle # {}
                 THEN <<UpdateTextStyle(index, index + Len(text), textStyle)>>
                 ELSE <<>>)
             \o (IF paragraphStyle # {}
                 THEN <<UpdateParagraphStyle(index, index + Len(text), paragraphStyle)>>
                 ELSE <<>>),
          currentIndex |-> index + Len(text) + 1]

\* the prefix literal of the list loop, character by character
BulletPrefix == <<"U+00E2", "U+20AC", "U+00A2", " ">>

Call(e, text, textStyle, paragraphStyle) ==
    [id |-> e.id, text |-> text, textStyle |-> textStyle, paragraphStyle |-> paragraphStyle]

MapSeq(f(_), s) == [i \in 1..Len(s) |-> f(s[i])]

RECURSIVE Concat(_)
Concat(ss) == IF ss = <<>> THEN <<>> ELSE Head(ss) \o Concat(Tail(ss))

\* Array.from(doc.getElementsByTagName('h1')).forEach(...)
HeadingCalls(doc) ==
    MapSeq(LAMBDA e : Call(e, TextContent(e.node),
                           {"bold", "fontSize:16"}, {"namedStyleType:HEADING_1"}),
           DocElementsByTagName(doc, "h1"))

\* Array.from(doc.getElementsByTagName('h2')).forEach(...)
SubHeadingCalls(doc) ==
    MapSeq(LAMBDA e : Call(e, TextContent(e.node),
                           {"bold", "fontSize:14"}, {"namedStyleType:HEADING_2"}),
           DocElementsByTagName(doc, "h2"))

\* Array.from(doc.getElementsByTagName('p')).forEach(...)
ParagraphCalls(doc) ==
    MapSeq(LAMBDA e : Call(e, TextContent(e.node), {}, {"namedStyleType:NORMAL_TEXT"}),
           DocElementsByTagName(doc, "p"))

\* for every ul of the document, for every li below it
ListCalls(doc) ==
    Concat(MapSeq(LAMBDA list :
                      MapSeq(LAMBDA item :
                                 Call(item, BulletPrefix \o TextContent(item.node), {},
                                      {"namedStyleType:NORMAL_TEXT", "indentStart:36",
                                       "indentFirstLine:18"}),
                             ElementsByTagName(list, "li")),
                  DocElementsByTagName(doc, "ul")))

\* Array.from(doc.getElementsByTagName('pre')).forEach(...)
CodeBlockCalls(doc) ==
    MapSeq(LAMBDA e : Call(e, TextContent(e.node),
                           {"fontFamily:Courier New", "backgroundColor"},
                           {"namedStyleType:NORMAL_TEXT", "spaceAbove:10", "spaceBelow:10"}),
           DocElementsByTagName(doc, "pre"))

\* the five loops of the function body, in source order
Loops(doc) ==
    <<HeadingCalls(doc), SubHeadingCalls(doc), ParagraphCalls(doc), ListCalls(doc),
      CodeBlockCalls(doc)>>

NumLoops == 5

RECURSIVE Advance(_, _, _)
\* the loop and iteration that runs next: exhausted loops are left
Advance(ls, ph, k) ==
    IF ph > NumLoops THEN [phase |-> ph, pos |-> 0]
    ELSE IF k < Len(ls[ph]) THEN [phase |-> ph, pos |-> k]
    ELSE Advance(ls, ph + 1, 0)

\* a slip: the cursor is a module-level variable that outlives the call
InitialIndexCarried(previous) == previous

\* let currentIndex = 1, whatever an earlier call left
InitialIndex(previous) == 1

InitTransform ==
    /\ html \in HtmlDocs
    /\ loops = Loops(html)
    /\ requests = <<>>
    /\ currentIndex = InitialIndex(1)
    /\ phase = Advance(loops, 1, 0).phase
    /\ pos = 0
    /\ emitted = <<>>
    /\ earlier = <<>>
    /\ ClassifierIdle
    /\ ServerIdle

\* one iteration of loop ph: one call of addFormattedText
Iterate(ph) ==
    /\ phase = ph
    /\ LET c == loops[ph][pos + 1]
           r == AddFormattedText(requests, currentIndex, c.text, c.textStyle,
                                 c.paragraphStyle)
           n == Advance(loops, ph, pos + 1)
       IN  /\ requests' = r.requests
           /\ currentIndex' = r.currentIndex
           /\ emitted' = IF Len(r.requests) > Len(requests)
                         THEN Append(emitted, c.id) ELSE emitted
           /\ phase' = n.phase
           /\ pos' = n.pos
    /\ UNCHANGED <<html, loops, earlier, clsVars, srvVars>>

ProcessHeadings == Iterate(1)
ProcessSubHeadings == Iterate(2)
ProcessParagraphs == Iterate(3)
ProcessLists == Iterate(4)
ProcessCodeBlocks == Iterate(5)

\* return requests
Returned == phase > NumLoops

NextTransform ==
    \/ ProcessHeadings
    \/ ProcessSubHeadings
    \/ ProcessParagraphs
    \/ ProcessLists
    \/ ProcessCodeBlocks

SpecTransform == InitTransform /\ [][NextTransform]_vars

-----------------------------------------------------------------------------
(* htmlToGoogleDocsStructure called for one document after the other, as   *)
(* the batch loop does                                                      *)

\* the documents of the later calls
LaterDocs ==
    { TitleBodyDoc,
      <<El("p", <<Txt(TextBlank)>>)>>,
      <<El("ul", <<El("li", <<Txt(TextA)>>), El("li", <<Txt(TextBc)>>)>>)>> }

InitTransformCalls ==
    /\ html \in SeqsUpTo(LeafElements, MaxElems - 1)
    /\ loops = Loops(html)
    /\ requests = <<>>
    /\ currentIndex = InitialIndex(1)
    /\ phase = Advance(loops, 1, 0).phase
    /\ pos = 0
    /\ emitted = <<>>
    /\ earlier = <<>>
    /\ ClassifierIdle
    /\ ServerIdle

\* the previous call has returned and the function is entered again: parser,
\* doc, requests and currentIndex are locals of the new call
EnterTransform ==
    /\ Returned
    /\ Len(earlier) + 1 < MaxTransforms
    /\ earlier' = Append(earlier, currentIndex)
    /\ \E doc \in LaterDocs :
           /\ html' = doc
           /\ loops' = Loops(doc)
           /\ phase' = Advance(Loops(doc), 1, 0).phase
    /\ requests' = <<>>
    /\ currentIndex' = InitialIndex(currentIndex)
    /\ pos' = 0
    /\ emitted' = <<>>
    /\ UNCHANGED <<clsVars, srvVars>>

NextTransformCalls ==
    \/ ProcessHeadings
    \/ ProcessSubHeadings
    \/ ProcessParagraphs
    \/ ProcessLists
    \/ ProcessCodeBlocks
    \/ EnterTransform

SpecTransformCalls == InitTransformCalls /\ [][NextTransformCalls]_vars

-----------------------------------------------------------------------------
(* Google Drive and Google Docs as the routes see them                      *)

\* a paragraph with its text runs, as documents.get returns it
Paragraph(runs) == [type |-> "paragraph", runs |-> runs, rows |-> <<>>]
\* a table: rows of cells, every cell a sequence of structural elements
Table(rows) == [type |-> "table", runs |-> <<>>, rows |-> rows]

Body(elements) == [present |-> TRUE, content |-> elements]
MissingBody == [present |-> FALSE, content |-> <<>>]

File(name, body) == [name |-> name, body |-> body]

ConvertedTitlePrefix == <<"C", "o", "n", "v", "e", "r", "t", "e", "d", "-">>
PdfSuffix == <<".", "p", "d", "f">>

MarkdownRun == <<"#", " ", "a">>
PlainRun == <<"a">>

\* the files a listing can hold: markdown, plain text, a name that marks an
\* earlier conversion, a document without body, a table holding markdown
FilePool ==
    { File(<<"m">>, Body(<<Paragraph(<<MarkdownRun>>)>>)),
      File(<<"p">>, Body(<<Paragraph(<<PlainRun>>)>>)),
      File(ConvertedTitlePrefix \o <<"m">>, Body(<<Paragraph(<<MarkdownRun>>)>>)),
      File(<<"n">>, MissingBody),
      File(<<"t">>, Body(<<Table(<< << <<Paragraph(<<MarkdownRun>>)>> >> >>)>>)) }

\* String.prototype.toLowerCase on the letters that occur in names
LowerChar(c) ==
    CASE c = "C" -> "c" [] c = "O" -> "o" [] c = "N" -> "n" [] c = "V" -> "v"
      [] c = "E" -> "e" [] c = "R" -> "r" [] c = "T" -> "t" [] c = "D" -> "d"
      [] OTHER -> c
ToLowerCase(str) == [i \in 1..Len(str) |-> LowerChar(str[i])]

\* str.includes(sub)
Includes(str, sub) ==
    \E i \in 1..(Len(str) - Len(sub) + 1) : SubSeq(str, i, i + Len(sub) - 1) = sub

\* a slip: the name is searched as it is written
HasConvertedNameCaseSensitive(file) ==
    Includes(file.name, <<"c", "o", "n", "v", "e", "r", "t", "e", "d">>)

\* file.name.toLowerCase().includes('converted')
HasConvertedName(file) ==
    Includes(ToLowerCase(file.name), <<"c", "o", "n", "v", "e", "r", "t", "e", "d">>)

RECURSIVE JoinWith(_, _)
\* parts.join(sep)
JoinWith(parts, sep) ==
    IF parts = <<>> THEN <<>>
    ELSE IF Len(parts) = 1 THEN parts[1]
    ELSE parts[1] \o sep \o JoinWith(Tail(parts), sep)

RECURSIVE ContentPartsOfAll(_)
\* processElement of extractDocumentContent: the runs pushed to contentParts
ContentParts(element) ==
    IF element.type = "paragraph" THEN SelectSeq(element.runs, LAMBDA run : run # <<>>)
    ELSE Concat([r \in 1..Len(element.rows) |->
                    Concat([c \in 1..Len(element.rows[r]) |->
                               ContentPartsOfAll(element.rows[r][c])])])
ContentPartsOfAll(elements) ==
    IF elements = <<>> THEN <<>>
    ELSE ContentParts(Head(elements)) \o ContentPartsOfAll(Tail(elements))

\* extractDocumentContent(docContent)
ExtractDocumentContent(body) ==
    IF ~body.present THEN <<>>
    ELSE JoinWith(ContentPartsOfAll(body.content), <<"\n">>)

\* the extraction written inline in POST /api/convert; only called on a body
\* that is present
InlineRawContent(body) ==
    LET paragraphs == SelectSeq(body.content, LAMBDA sec : sec.type = "paragraph")
    IN  JoinWith([k \in 1..Len(paragraphs) |->
                     JoinWith(SelectSeq(paragraphs[k].runs, LAMBDA run : run # <<>>), <<>>)],
                 <<"\n">>)

RunA == <<"a">>
RunB == <<"#", " ">>

\* one row of two cells, each holding one paragraph
TableOfTwoCells == Table(<< << <<Paragraph(<<RunB>>)>>, <<Paragraph(<<RunA>>)>> >> >>)

\* structural elements of a body: paragraphs of one and two text runs, a
\* table, a table whose cell holds a paragraph and a table
BlockPool ==
    { Paragraph(<<RunA>>),
      Paragraph(<<RunB>>),
      Paragraph(<<RunB, RunA>>),
      TableOfTwoCells,
      Table(<< << <<Paragraph(<<RunA>>), TableOfTwoCells>> >> >>) }

\* docContent.data of a documents.get response
DocContents == {MissingBody} \cup {Body(blocks) : blocks \in SeqsUpTo(BlockPool, MaxBlocks)}

\* a document has been fetched; nothing was extracted from it yet
InitExtract ==
    /\ docContent \in DocContents
    /\ extracted = FALSE
    /\ content = <<>>
    /\ matchedPatterns = {}
    /\ verdict = FALSE
    /\ ncalls = 0
    /\ lastIndex = NewPatterns
    /\ TransformerIdle
    /\ ServerIdle

\* const content = extractDocumentContent(docContent.data)
Extract ==
    /\ ~extracted
    /\ content' = ExtractDocumentContent(docContent)
    /\ extracted' = TRUE
    /\ UNCHANGED <<docContent, matchedPatterns, verdict, ncalls, lastIndex, trVars, srvVars>>

\* isMarkdownContent(content) on the extracted text
ClassifyExtracted ==
    /\ extracted
    /\ Classify

NextExtract ==
    \/ Extract
    \/ ClassifyExtracted

SpecExtract == InitExtract /\ [][NextExtract]_vars

-----------------------------------------------------------------------------
(* HTTP requests                                                            *)

Routes == {"docs", "convert", "download"}
\* the two other conversion routes the server registers
VariantRoutes == {"convert-2", "convert-3"}
ConvertRoutes == {"convert"} \cup VariantRoutes

\* two clients; each waits for the answer before it sends its next request
Clients == {"c1", "c2"}
\* the access token Google issued to a client
TokenOf(c) == IF c = "c1" THEN "t1" ELSE "t2"
\* access tokens Google accepts
ValidTokens == {TokenOf(c) : c \in Clients}
\* the Authorization header: absent, or the words of its value
NoHeader == <<>>
\* what a client can send: no header, its token, an expired token
Headers(c) == {NoHeader, <<"Bearer", TokenOf(c)>>, <<"Bearer", "expired">>}

\* authHeader.split(' ')[1]
HeaderToken(header) == IF Len(header) >= 2 THEN header[2] ELSE "undefined"

NoResponse == [status |-> 0, error |-> "", details |-> "", totalFiles |-> 0, payload |-> <<>>]
ErrorResponse(status, error, details) ==
    [status |-> status, error |-> error, details |-> details, totalFiles |-> 0,
     payload |-> <<>>]
JsonResponse(totalFiles, payload) ==
    [status |-> 200, error |-> "", details |-> "", totalFiles |-> totalFiles,
     payload |-> payload]

NewRequest(route, header) ==
    [route |-> route, header |-> header, query |-> "", token |-> "undefined", pc |-> "idle",
     files |-> <<>>, i |-> 0, convertedFiles |-> <<>>, zip |-> <<>>,
     markdownDocs |-> <<>>, calls |-> <<>>, resp |-> NoResponse]

\* the entries of convertedFiles; position is the place of the file in the
\* listing, kept to tell apart files of the same name
ConvertedEntry(file, k) ==
    [originalFileName |-> file.name, convertedFileName |-> file.name \o PdfSuffix,
     status |-> "converted", error |-> "", position |-> k]
FailedEntry(file, k, message) ==
    [originalFileName |-> file.name, convertedFileName |-> <<>>,
     status |-> "failed", error |-> message, position |-> k]

\* the outcomes of a remote call: it throws when the credentials of the shared
\* client are not accepted, and may throw for any other reason
CallOutcomes ==
    IF oauthCreds \notin ValidTokens THEN {"Invalid Credentials"}
    ELSE {"ok"} \cup (IF faultsLeft > 0 THEN {"failed"} ELSE {})

CountFault(outcome) ==
    faultsLeft' = IF outcome = "failed" THEN faultsLeft - 1 ELSE faultsLeft

\* error.message of what a remote call throws: the call that failed, or the
\* refusal of the credentials
ErrorMessage(call, outcome) ==
    IF outcome = "failed" THEN call ELSE outcome

\* the request record with one more remote call on its log: the call, the
\* position in the listing of the file it is made for (0: none), how it ended
Logged(rq, call, k, outcome) ==
    [rq EXCEPT !.calls = Append(@, [call |-> call, file |-> k, outcome |-> outcome])]

AtPc(pc) == {r \in Clients : httpReqs[r].pc = pc}
Answered(r) == httpReqs[r].pc = "done"

\* a slip: without Authorization header the token of the query string is taken
AuthHeaderOrQuery(rq) ==
    IF rq.header = NoHeader /\ rq.query # "" THEN <<"Bearer", rq.query>> ELSE rq.header

\* const authHeader = req.headers.authorization
AuthHeader(rq) == rq.header

\* express starts authenticateGoogle on the request rq of client c: the header
\* check, setCredentials and the issue of userinfo.get run without interruption
Received(c, rq) ==
    IF AuthHeader(rq) = NoHeader
    THEN /\ httpReqs' = [httpReqs EXCEPT ![c] =
                [rq EXCEPT !.pc = "done",
                           !.resp = ErrorResponse(401, "No token provided", "")]]
         /\ UNCHANGED oauthCreds
    ELSE /\ httpReqs' = [httpReqs EXCEPT ![c] =
                [rq EXCEPT !.pc = "verify", !.token = HeaderToken(AuthHeader(rq))]]
         /\ oauthCreds' = HeaderToken(AuthHeader(rq))

\* a request of one of clients for one of routes arrives
ArriveFrom(clients, routes) ==
    /\ reqsLeft > 0
    /\ reqsLeft' = reqsLeft - 1
    /\ \E c \in (AtPc("idle") \cup AtPc("done")) \cap clients :
           \E route \in routes, header \in Headers(c) :
               Received(c, NewRequest(route, header))
    /\ UNCHANGED <<driveFiles, createdDocs, convertedZip, faultsLeft, lastConvert>>
    /\ UNCHANGED <<clsVars, trVars>>

\* a request for one of routes arrives
ArriveAt(routes) == ArriveFrom(Clients, routes)

\* one client sends GET /api/docs or POST /api/convert, run after run
ArriveListing == ArriveFrom({"c1"}, {"docs", "convert"})

\* zipDownloadLink of the response to rq: the route and the token of the
\* query string
ZipDownloadLink(rq) == [route |-> "download", query |-> HeaderToken(rq.header)]

\* POST /api/convert arrives
ArriveConvert == ArriveAt({"convert"})

\* a client that was answered 200 by a conversion route sends a GET of the
\* zipDownloadLink of that response, with or without Authorization header
FollowLink ==
    /\ reqsLeft > 0
    /\ reqsLeft' = reqsLeft - 1
    /\ \E c \in AtPc("done") : \E header \in Headers(c) :
           /\ httpReqs[c].route \in ConvertRoutes
           /\ httpReqs[c].resp.status = 200
           /\ LET link == ZipDownloadLink(httpReqs[c])
               IN  Received(c, [NewRequest(link.route, header) EXCEPT !.query = link.query])
    /\ UNCHANGED <<driveFiles, createdDocs, convertedZip, faultsLeft, lastConvert>>
    /\ UNCHANGED <<clsVars, trVars>>

\* GET /api/docs, POST /api/convert or GET /api/download-zip arrives
Arrive == ArriveAt(Routes)

\* POST /api/convert-2 or POST /api/convert-3 arrives
ArriveVariant == ArriveAt(VariantRoutes)

\* a slip: an archive without entries counts as no archive
DownloadZipWhenNonEmpty(rq) ==
    IF convertedZip.present /\ convertedZip.entries # <<>>
    THEN [rq EXCEPT !.pc = "done", !.resp = JsonResponse(0, convertedZip.entries)]
    ELSE [rq EXCEPT !.pc = "done",
                    !.resp = ErrorResponse(404, "No zip file available", "")]

\* the handler of GET /api/download-zip
DownloadZip(rq) ==
    IF convertedZip.present
    THEN [rq EXCEPT !.pc = "done", !.resp = JsonResponse(0, convertedZip.entries)]
    ELSE [rq EXCEPT !.pc = "done",
                    !.resp = ErrorResponse(404, "No zip file available", "")]

\* a slip: next() is called whatever userinfo.get answers
TokenAcceptedAlways(rq) == TRUE

\* userinfo.get, issued with the credentials set from this request's header
TokenAccepted(rq) == rq.token \in ValidTokens

\* userinfo.get settles: next() enters the route handler, which runs up to
\* its first await, or the catch block answers 401
Verify ==
    /\ \E r \in AtPc("verify") :
           LET rq == httpReqs[r]
           IN  httpReqs' = [httpReqs EXCEPT ![r] =
                   IF ~TokenAccepted(rq)
                   THEN [rq EXCEPT !.pc = "done",
                                   !.resp = ErrorResponse(401, "Invalid or expired token", "")]
                   ELSE IF rq.route = "download" THEN DownloadZip(rq)
                   ELSE IF rq.route \in ConvertRoutes THEN [rq EXCEPT !.pc = "createFolder"]
                   ELSE [rq EXCEPT !.pc = "docsList"]]
    /\ UNCHANGED <<driveFiles, createdDocs, oauthCreds, convertedZip, reqsLeft, faultsLeft, lastConvert>>
    /\ UNCHANGED <<clsVars, trVars>>

-----------------------------------------------------------------------------
(* POST /api/convert                                                        *)

\* drive.files.list: the Google Docs files of the Drive
Listing == driveFiles \o createdDocs

RECURSIVE NextUnconverted(_, _)
\* the for loop, from position k: the iterations that only run the name check
\* and continue are passed; the result is the index of the next file fetched
NextUnconverted(files, k) ==
    IF k > Len(files) THEN k
    ELSE IF HasConvertedName(files[k]) THEN NextUnconverted(files, k + 1)
    ELSE k

\* totalFiles of the response: convertedFiles.length in /api/convert,
\* markdownFiles.length in /api/convert-2 and /api/convert-3
TotalFiles(rq) ==
    IF rq.route = "convert" THEN Len(rq.convertedFiles) ELSE Len(rq.markdownDocs)

\* res.json({totalFiles, convertedFiles, zipDownloadLink})
ConvertResponse(rq) == JsonResponse(TotalFiles(rq), rq.convertedFiles)

\* the file the for loop takes after position k: only /api/convert has the
\* name check
NextInLoop(rq, k) ==
    IF rq.route = "convert" THEN NextUnconverted(rq.files, k + 1) ELSE k + 1

\* the end of one loop iteration: the loop goes on to the next file that is
\* fetched, or ends, and the response is sent
EndOfIteration(rq) ==
    LET k == NextInLoop(rq, rq.i)
    IN  IF k <= Len(rq.files) THEN [rq EXCEPT !.i = k, !.pc = "documents.get"]
        ELSE [rq EXCEPT !.i = k, !.pc = "done", !.resp = ConvertResponse(rq)]

\* catch (error) of the route: 500
ConversionFailed(rq, message) ==
    [rq EXCEPT !.pc = "done", !.resp = ErrorResponse(500, "Conversion Failed", message)]

\* a slip: no try block around the loop body, the error reaches the route's catch
CatchFileErrorInRoute(rq, message) == ConversionFailed(rq, message)

\* a slip: the failed file is recorded as converted
CatchFileErrorAsConverted(rq, message) ==
    EndOfIteration([rq EXCEPT !.convertedFiles =
                                  Append(@, ConvertedEntry(rq.files[rq.i], rq.i))])

\* a slip: the file is added to the archive before the step that threw
CatchFileErrorAfterAddFile(rq, message) ==
    EndOfIteration([rq EXCEPT !.zip = Append(@, rq.files[rq.i].name \o PdfSuffix),
                              !.convertedFiles =
                                  Append(@, FailedEntry(rq.files[rq.i], rq.i, message))])

\* a slip: the failed entry is put in front of the earlier entries (unshift)
CatchFileErrorUnshift(rq, message) ==
    EndOfIteration([rq EXCEPT !.convertedFiles =
                                  <<FailedEntry(rq.files[rq.i], rq.i, message)>> \o @])

\* catch (fileError): the failed entry is pushed
CatchFileError(rq, message) ==
    EndOfIteration([rq EXCEPT !.convertedFiles = Append(@, FailedEntry(rq.files[rq.i], rq.i, message))])

\* a slip: the archive is stored whatever the response
StoreZipAlways(rq) ==
    IF rq.pc = "done"
    THEN /\ convertedZip' = [present |-> TRUE, entries |-> rq.zip]
         /\ lastConvert' = IF rq.resp.status = 200
                           THEN [any |-> TRUE, convertedFiles |-> rq.resp.payload]
                           ELSE lastConvert
    ELSE UNCHANGED <<convertedZip, lastConvert>>

\* global.convertedZip = zipBuffer, which follows res.json in the same block;
\* lastConvert records what res.json sent
StoreZip(rq) ==
    IF rq.pc = "done" /\ rq.resp.status = 200
    THEN /\ convertedZip' = [present |-> TRUE, entries |-> rq.zip]
         /\ lastConvert' = [any |-> TRUE, convertedFiles |-> rq.resp.payload]
    ELSE UNCHANGED <<convertedZip, lastConvert>>

\* the request r becomes rq; when the route has answered 200 the archive is stored
ConvertStep(r, rq) ==
    /\ httpReqs' = [httpReqs EXCEPT ![r] = rq]
    /\ StoreZip(rq)

\* await drive.files.create (the folder)
CreateFolder ==
    /\ \E r \in AtPc("createFolder") : \E outcome \in CallOutcomes :
           LET rq == Logged(httpReqs[r], "files.create", 0, outcome)
           IN  /\ CountFault(outcome)
               /\ ConvertStep(r, IF outcome = "ok" THEN [rq EXCEPT !.pc = "files.list"]
                                 ELSE ConversionFailed(rq, ErrorMessage("files.create", outcome)))
    /\ UNCHANGED <<driveFiles, createdDocs, oauthCreds, reqsLeft>>
    /\ UNCHANGED <<clsVars, trVars>>

\* await drive.files.list, then the loop up to its first await
ListFiles ==
    /\ \E r \in AtPc("files.list") : \E outcome \in CallOutcomes :
           LET rq == Logged(httpReqs[r], "files.list", 0, outcome)
           IN  /\ CountFault(outcome)
               /\ ConvertStep(r, IF outcome = "ok"
                                 THEN EndOfIteration([rq EXCEPT !.files = Listing, !.i = 0])
                                 ELSE ConversionFailed(rq, ErrorMessage("files.list", outcome)))
    /\ UNCHANGED <<driveFiles, createdDocs, oauthCreds, reqsLeft>>
    /\ UNCHANGED <<clsVars, trVars>>

\* the markdown detection of /api/convert-2
BasicDetection(t) ==
    \/ Includes(t, <<"#", " ">>)
    \/ Includes(t, <<"#", "#", " ">>)
    \/ Includes(t, <<"*", "*">>)
    \/ Includes(t, <<"*">>)
    \/ Includes(t, <<"-", " ">>)
    \/ Includes(t, <<"BQ", "BQ", "BQ">>)

\* /api/convert-2 after documents.get: extractDocumentContent, the detection
\* and markdownFiles.push(file); a document not detected ends the iteration
DetectAndGoOn(rq) ==
    IF BasicDetection(ExtractDocumentContent(rq.files[rq.i].body))
    THEN [rq EXCEPT !.markdownDocs = Append(@, rq.files[rq.i].name),
                    !.pc = "documents.create"]
    ELSE EndOfIteration(rq)

\* await docs.documents.get, the inline extraction (a TypeError when the body
\* is missing), marked.parse and htmlToGoogleDocsStructure
GetDocument ==
    /\ \E r \in AtPc("documents.get") : \E outcome \in CallOutcomes :
           LET rq == Logged(httpReqs[r], "documents.get", httpReqs[r].i, outcome)
               file == rq.files[rq.i]
           IN  /\ CountFault(outcome)
               /\ ConvertStep(r,
                      IF outcome # "ok"
                      THEN CatchFileError(rq, ErrorMessage("documents.get", outcome))
                      ELSE IF rq.route = "convert-2" THEN DetectAndGoOn(rq)
                      ELSE IF ~file.body.present
                      THEN CatchFileError(rq, "Cannot read properties of undefined")
                      ELSE [rq EXCEPT !.pc = "documents.create"])
    /\ UNCHANGED <<driveFiles, createdDocs, oauthCreds, reqsLeft>>
    /\ UNCHANGED <<clsVars, trVars>>

\* await docs.documents.create
CreateDocument ==
    /\ \E r \in AtPc("documents.create") : \E outcome \in CallOutcomes :
           LET rq == Logged(httpReqs[r], "documents.create", httpReqs[r].i, outcome)
               file == rq.files[rq.i]
           IN  /\ CountFault(outcome)
               /\ createdDocs' =
                      IF outcome = "ok"
                      THEN Append(createdDocs,
                                  File(ConvertedTitlePrefix \o file.name, Body(<<>>)))
                      ELSE createdDocs
               /\ ConvertStep(r,
                      IF outcome = "ok" THEN [rq EXCEPT !.pc = "documents.batchUpdate"]
                      ELSE CatchFileError(rq, ErrorMessage("documents.create", outcome)))
    /\ UNCHANGED <<driveFiles, oauthCreds, reqsLeft>>
    /\ UNCHANGED <<clsVars, trVars>>

\* await docs.documents.batchUpdate
BatchUpdate ==
    /\ \E r \in AtPc("documents.batchUpdate") : \E outcome \in CallOutcomes :
           LET rq == Logged(httpReqs[r], "documents.batchUpdate", httpReqs[r].i, outcome)
           IN  /\ CountFault(outcome)
               /\ ConvertStep(r,
                      IF outcome = "ok" THEN [rq EXCEPT !.pc = "files.update"]
                      ELSE CatchFileError(rq, ErrorMessage("documents.batchUpdate", outcome)))
    /\ UNCHANGED <<driveFiles, createdDocs, oauthCreds, reqsLeft>>
    /\ UNCHANGED <<clsVars, trVars>>

\* await drive.files.update (the move to the folder)
MoveToFolder ==
    /\ \E r \in AtPc("files.update") : \E outcome \in CallOutcomes :
           LET rq == Logged(httpReqs[r], "files.update", httpReqs[r].i, outcome)
           IN  /\ CountFault(outcome)
               /\ ConvertStep(r,
                      IF outcome = "ok" THEN [rq EXCEPT !.pc = "files.export"]
                      ELSE CatchFileError(rq, ErrorMessage("files.update", outcome)))
    /\ UNCHANGED <<driveFiles, createdDocs, oauthCreds, reqsLeft>>
    /\ UNCHANGED <<clsVars, trVars>>

\* await drive.files.export, zip.addFile and the converted entry
ExportPdf ==
    /\ \E r \in AtPc("files.export") : \E outcome \in CallOutcomes :
           LET rq == Logged(httpReqs[r], "files.export", httpReqs[r].i, outcome)
               file == rq.files[rq.i]
           IN  /\ CountFault(outcome)
               /\ ConvertStep(r,
                      IF outcome = "ok"
                      THEN EndOfIteration(
                               [rq EXCEPT !.zip = Append(@, file.name \o PdfSuffix),
                                          !.convertedFiles = Append(@, ConvertedEntry(file, rq.i))])
                      ELSE CatchFileError(rq, ErrorMessage("files.export", outcome)))
    /\ UNCHANGED <<driveFiles, createdDocs, oauthCreds, reqsLeft>>
    /\ UNCHANGED <<clsVars, trVars>>

-----------------------------------------------------------------------------
(* GET /api/docs                                                            *)

\* the end of one loop iteration of /api/docs
DocsEndOfIteration(rq) ==
    LET k == NextUnconverted(rq.files, rq.i + 1)
    IN  IF k <= Len(rq.files) THEN [rq EXCEPT !.i = k, !.pc = "docsGet"]
        ELSE [rq EXCEPT !.i = k, !.pc = "done",
                        !.resp = JsonResponse(Len(rq.markdownDocs), rq.markdownDocs)]

\* await drive.files.list, then the loop up to its first await
DocsList ==
    /\ \E r \in AtPc("docsList") : \E outcome \in CallOutcomes :
           LET rq == Logged(httpReqs[r], "files.list", 0, outcome)
           IN  /\ CountFault(outcome)
               /\ httpReqs' = [httpReqs EXCEPT ![r] =
                      IF outcome = "ok"
                      THEN DocsEndOfIteration([rq EXCEPT !.files = Listing, !.i = 0])
                      ELSE [rq EXCEPT !.pc = "done",
                                      !.resp = ErrorResponse(500, "Error processing documents",
                                                   ErrorMessage("files.list", outcome))]]
    /\ UNCHANGED <<driveFiles, createdDocs, oauthCreds, convertedZip, reqsLeft, lastConvert>>
    /\ UNCHANGED <<clsVars, trVars>>

\* await docs.documents.get, extractDocumentContent and isMarkdownContent; an
\* error is logged and the loop goes on
DocsGet ==
    /\ \E r \in AtPc("docsGet") : \E outcome \in CallOutcomes :
           LET rq == Logged(httpReqs[r], "documents.get", httpReqs[r].i, outcome)
               file == rq.files[rq.i]
           IN  /\ CountFault(outcome)
               /\ httpReqs' = [httpReqs EXCEPT ![r] =
                      IF outcome = "ok" /\ IsMarkdownContent(ExtractDocumentContent(file.body))
                      THEN DocsEndOfIteration([rq EXCEPT !.markdownDocs = Append(@, file.name)])
                      ELSE DocsEndOfIteration(rq)]
    /\ UNCHANGED <<driveFiles, createdDocs, oauthCreds, convertedZip, reqsLeft, lastConvert>>
    /\ UNCHANGED <<clsVars, trVars>>

-----------------------------------------------------------------------------
(* The server                                                               *)

\* the process after app.listen, before any request
ServerStarted ==
    /\ createdDocs = <<>>
    /\ oauthCreds = "unset"
    /\ convertedZip = NoZip
    /\ httpReqs = [c \in Clients |-> NewRequest("none", NoHeader)]
    /\ lastConvert = NoConvert
    /\ ClassifierIdle
    /\ TransformerIdle

\* the two clients send MaxReqs requests, which may overlap; remote calls
\* throw only when the credentials are refused
Init ==
    /\ ServerStarted
    /\ driveFiles \in SeqsUpTo(FilePool, MaxServerDocs)
    /\ reqsLeft = MaxReqs
    /\ faultsLeft = 0

\* one request is sent; up to MaxFaults remote calls throw
InitBatch ==
    /\ ServerStarted
    /\ driveFiles \in SeqsUpTo(FilePool, MaxDocs)
    /\ reqsLeft = 1
    /\ faultsLeft = MaxFaults

Next ==
    \/ Arrive
    \/ Verify
    \/ CreateFolder
    \/ ListFiles
    \/ GetDocument
    \/ CreateDocument
    \/ BatchUpdate
    \/ MoveToFolder
    \/ ExportPdf
    \/ DocsList
    \/ DocsGet

Spec == Init /\ [][Next]_vars

SpecBatch == InitBatch /\ [][Next]_vars

\* the steps of the server under a request for /api/convert-2 or /api/convert-3
NextVariants ==
    \/ ArriveVariant
    \/ Verify
    \/ CreateFolder
    \/ ListFiles
    \/ GetDocument
    \/ CreateDocument
    \/ BatchUpdate
    \/ MoveToFolder
    \/ ExportPdf

SpecVariants == InitBatch /\ [][NextVariants]_vars

\* the steps of the server when the clients convert and follow the links of
\* the responses
NextLink ==
    \/ ArriveConvert
    \/ FollowLink
    \/ Verify
    \/ CreateFolder
    \/ ListFiles
    \/ GetDocument
    \/ CreateDocument
    \/ BatchUpdate
    \/ MoveToFolder
    \/ ExportPdf

SpecLink == Init /\ [][NextLink]_vars

\* the steps of the server when one client repeats its listing and conversion
\* runs
NextRepeat ==
    \/ ArriveListing
    \/ Verify
    \/ CreateFolder
    \/ ListFiles
    \/ GetDocument
    \/ CreateDocument
    \/ BatchUpdate
    \/ MoveToFolder
    \/ ExportPdf
    \/ DocsList
    \/ DocsGet

SpecRepeat == Init /\ [][NextRepeat]_vars

-----------------------------------------------------------------------------
(* Properties of the transformer                                            *)

InsertOps(reqs) == SelectSeq(reqs, LAMBDA r : r.op = "insertText")
IsStyleOp(r) == r.op \in {"updateTextStyle", "updateParagraphStyle"}

RECURSIVE InsertedLength(_)
\* total length of the strings a sequence of insertText operations inserts
InsertedLength(ins) ==
    IF ins = <<>> THEN 0 ELSE Len(Head(ins).text) + InsertedLength(Tail(ins))

\* C2: the k-th InsertText has location index 1 plus the lengths of the strings
\* the earlier InsertText operations insert (text and trailing newline); for
\* <h1>Title</h1><p>Body</p> the inserts are "Title\n" at 1 and "Body\n" at 7.
C2_InsertIndexIsPrefixSum ==
    LET ins == InsertOps(requests)
    IN  /\ \A k \in 1..Len(ins) :
               /\ ins[k].index = 1 + InsertedLength(SubSeq(ins, 1, k - 1))
               /\ ins[k].text[Len(ins[k].text)] = "\n"
        /\ (html = TitleBodyDoc /\ Returned) =>
               ins = << InsertText(1, <<"T", "i", "t", "l", "e", "\n">>),
                        InsertText(7, <<"B", "o", "d", "y", "\n">>) >>

C2_Witness ==
    /\ Returned
    /\ html = TitleBodyDoc
    /\ Len(InsertOps(requests)) = 2

C2_WitnessThreeInserts ==
    /\ Returned
    /\ Len(InsertOps(requests)) >= 3

\* position of the last insertText before position p of reqs, 0 if none
LastInsertBefore(reqs, p) ==
    LET qs == {q \in 1..(p - 1) : reqs[q].op = "insertText"}
    IN  IF qs = {} THEN 0 ELSE CHOOSE q \in qs : \A r \in qs : r <= q

\* C3: every style operation has range [s, s + len(text)) where s is the index
\* of the InsertText emitted before it for the same element and text is that
\* element's text without the trailing newline; the range lies inside text that
\* earlier operations inserted.
C3_StyleRangeFromCursorBefore ==
    \A p \in 1..Len(requests) :
        IsStyleOp(requests[p]) =>
            LET q == LastInsertBefore(requests, p)
            IN  /\ q > 0
                /\ \A m \in (q + 1)..(p - 1) : IsStyleOp(requests[m])
                /\ requests[p].startIndex = requests[q].index
                /\ requests[p].endIndex = requests[q].index + Len(requests[q].text) - 1
                /\ requests[p].startIndex >= 1
                /\ requests[p].endIndex
                     <= 1 + InsertedLength(InsertOps(SubSeq(requests, 1, p - 1)))

C3_Witness ==
    /\ Returned
    /\ Len(InsertOps(requests)) >= 2
    /\ \E p \in 2..Len(requests) : \E p2 \in (p + 1)..Len(requests) :
           /\ requests[p].op = "updateTextStyle" /\ requests[p].startIndex > 1
           /\ requests[p2].op = "updateParagraphStyle"
           /\ LastInsertBefore(requests, p) = LastInsertBefore(requests, p2)

\* C4: operations are emitted in document order: when element A precedes
\* element B in the HTML and both emit text, the InsertText of A comes before
\* the InsertText of B, whatever their tags.
C4_DocumentOrder ==
    \A i \in 1..Len(emitted) : \A j \in (i + 1)..Len(emitted) :
        emitted[i] < emitted[j]

-----------------------------------------------------------------------------
(* Properties of POST /api/convert run alone                                *)

PerDocumentCalls ==
    {"documents.get", "documents.create", "documents.batchUpdate", "files.update",
     "files.export"}

ConvertRequests == {c \in Clients : httpReqs[c].route = "convert"}

\* positions of the listing that the loop of rq fetches
Fetched(rq) == {k \in 1..Len(rq.files) : ~HasConvertedName(rq.files[k])}

\* the log entries of rq for a per-document call that threw
Thrown(rq) ==
    {p \in 1..Len(rq.calls) :
        rq.calls[p].call \in PerDocumentCalls /\ rq.calls[p].outcome # "ok"}

EntriesOf(rq, k) == {p \in 1..Len(rq.convertedFiles) : rq.convertedFiles[p].position = k}

CallsFor(rq, call, k) ==
    {p \in 1..Len(rq.calls) : rq.calls[p].call = call /\ rq.calls[p].file = k}

\* C5: when a per-document remote call throws for document k, exactly one
\* entry with status failed and the error message of the call is appended for
\* k, every document after k in the listing is still processed, and the
\* request is answered 200.
C5_PerDocumentFailureIsContained ==
    \A c \in ConvertRequests :
        LET rq == httpReqs[c]
        IN  \A p \in Thrown(rq) :
                LET k == rq.calls[p].file
                IN  /\ Cardinality(EntriesOf(rq, k)) = 1
                    /\ \A e \in EntriesOf(rq, k) :
                           /\ rq.convertedFiles[e].status = "failed"
                           /\ rq.convertedFiles[e].error
                                = ErrorMessage(rq.calls[p].call, rq.calls[p].outcome)
                    /\ \A q \in (p + 1)..Len(rq.calls) : rq.calls[q].file > k
                    /\ Answered(c) =>
                           /\ rq.resp.status = 200
                           /\ rq.resp.payload = rq.convertedFiles
                           /\ \A j \in Fetched(rq) :
                                  j > k => CallsFor(rq, "documents.get", j) # {}

\* the export of the first file threw after its document was created, and the
\* second file was converted
C5_Witness ==
    \E c \in ConvertRequests :
        LET rq == httpReqs[c]
        IN  /\ Answered(c) /\ rq.resp.status = 200
            /\ \E p \in Thrown(rq) :
                   /\ rq.calls[p].call = "files.export" /\ rq.calls[p].file = 1
                   /\ rq.calls[p].outcome = "failed"
            /\ Len(rq.convertedFiles) = 2
            /\ rq.convertedFiles[2].status = "converted"

\* exactly one remote call of rq threw: documents.batchUpdate for file k
OnlyBatchUpdateThrew(rq, k) ==
    /\ \E p \in 1..Len(rq.calls) :
           /\ rq.calls[p].call = "documents.batchUpdate" /\ rq.calls[p].file = k
           /\ rq.calls[p].outcome # "ok"
           /\ \A q \in 1..Len(rq.calls) : q # p => rq.calls[q].outcome = "ok"

\* the outcome the classification of a file asks for
OutcomeByClassification(file) ==
    IF IsMarkdownContent(ExtractDocumentContent(file.body)) THEN "converted" ELSE "skipped"

\* C6: for a batch of N listed documents in which exactly document k fails at
\* batchUpdate, the results list has length N, its entry k is the only failed
\* one, and every other position holds the converted or skipped outcome that
\* the classification of its document asks for.
C6_OneFailureAmongN ==
    \A c \in ConvertRequests :
        LET rq == httpReqs[c]
        IN  \A k \in 1..Len(rq.files) :
                (Answered(c) /\ OnlyBatchUpdateThrew(rq, k)) =>
                    /\ rq.resp.status = 200
                    /\ Len(rq.resp.payload) = Len(rq.files)
                    /\ \A j \in 1..Len(rq.resp.payload) :
                           rq.resp.payload[j].status
                             = IF j = k THEN "failed" ELSE OutcomeByClassification(rq.files[j])

\* C7: a converted remote document is created and exported for a listed
\* document only if isMarkdownContent returned true on its extracted text.
C7_ConvertOnlyMarkdown ==
    \A c \in ConvertRequests :
        LET rq == httpReqs[c]
        IN  \A p \in 1..Len(rq.calls) :
                rq.calls[p].call \in {"documents.create", "documents.batchUpdate", "files.export"}
                    => IsMarkdownContent(InlineRawContent(rq.files[rq.calls[p].file].body))

TopLevelCalls == {"files.create", "files.list"}

\* C10: the route answers 200 with the results array whenever folder creation
\* and the listing succeed, whatever fails per document, and answers 500 with
\* an error and details exactly when one of the two throws; then no document
\* is fetched or converted.
C10_StatusBySetup ==
    \A c \in ConvertRequests :
        LET rq == httpReqs[c]
            setupThrew == \E p \in 1..Len(rq.calls) :
                              rq.calls[p].call \in TopLevelCalls /\ rq.calls[p].outcome # "ok"
        IN  (Answered(c) /\ rq.calls # <<>>) =>
                /\ rq.resp.status \in {200, 500}
                /\ rq.resp.status = 500 <=> setupThrew
                /\ rq.resp.status = 200 =>
                       /\ rq.resp.payload = rq.convertedFiles
                       /\ rq.resp.totalFiles = Len(rq.convertedFiles)
                /\ rq.resp.status = 500 =>
                       /\ rq.resp.error = "Conversion Failed"
                       /\ rq.resp.details
                            = ErrorMessage(rq.calls[Len(rq.calls)].call,
                                           rq.calls[Len(rq.calls)].outcome)
                       /\ \A p \in 1..Len(rq.calls) : rq.calls[p].call \in TopLevelCalls
                       /\ rq.convertedFiles = <<>>
                       /\ createdDocs = <<>>

\* a 200 whose results hold two failed entries
C10_Witness ==
    \E c \in ConvertRequests :
        LET rq == httpReqs[c]
        IN  /\ Answered(c) /\ rq.resp.status = 200
            /\ Len(rq.resp.payload) >= 2
            /\ \A j \in 1..Len(rq.resp.payload) : rq.resp.payload[j].status = "failed"

\* a 500 after the listing threw
C10_WitnessSetupFailed ==
    \E c \in ConvertRequests :
        LET rq == httpReqs[c]
        IN  /\ Answered(c) /\ rq.resp.status = 500
            /\ Len(rq.calls) = 2 /\ rq.calls[2].outcome = "failed"
            /\ driveFiles # <<>>

-----------------------------------------------------------------------------
(* Properties of the server under requests of two callers                   *)

\* the archive of a results array: one entry per converted file
ArchiveOf(convertedFiles) ==
    LET converted == SelectSeq(convertedFiles, LAMBDA e : e.status = "converted")
    IN  [j \in 1..Len(converted) |-> converted[j].convertedFileName]

\* the requests answered by the step
Completing(route, status) ==
    {c \in Clients : /\ httpReqs'[c] # httpReqs[c]
                     /\ httpReqs'[c].pc = "done"
                     /\ httpReqs'[c].route = route
                     /\ httpReqs'[c].resp.status = status}

C8_Stored ==
    /\ convertedZip.present = lastConvert.any
    /\ convertedZip.entries = ArchiveOf(lastConvert.convertedFiles)

C8_Step ==
    /\ \A c \in Completing("download", 200) :
           /\ lastConvert.any
           /\ httpReqs'[c].resp.payload = ArchiveOf(lastConvert.convertedFiles)
    /\ \A c \in Completing("download", 404) : ~lastConvert.any
    /\ \A c \in Completing("convert", 200) :
           /\ lastConvert' = [any |-> TRUE, convertedFiles |-> httpReqs'[c].resp.payload]
           /\ convertedZip' = [present |-> TRUE,
                               entries |-> ArchiveOf(httpReqs'[c].resp.payload)]
    /\ \A c \in Completing("convert", 500) : convertedZip' = convertedZip
    /\ Completing("convert", 200) = {} => UNCHANGED <<convertedZip, lastConvert>>

\* C8: the download returns the archive of the most recently completed
\* successful convert request of any caller; a completed convert request
\* replaces the stored archive as a whole, the stored archive holds the entries
\* of one convert request only, and a convert request answered 500 leaves the
\* stored archive unchanged.
C8_DownloadReturnsLastArchive == [] C8_Stored /\ [][C8_Step]_vars

\* a convert request was answered 500 while the archive of an earlier
\* convert request is stored
C8_Witness ==
    /\ convertedZip.present /\ convertedZip.entries # <<>>
    /\ \E c \in Clients :
           /\ Answered(c) /\ httpReqs[c].route = "convert"
           /\ httpReqs[c].resp.status = 500

\* a download answered with the archive stored by the other caller
C8_WitnessDownload ==
    \E c, d \in Clients :
        /\ c # d
        /\ Answered(c) /\ httpReqs[c].route = "download"
        /\ httpReqs[c].resp.status = 200 /\ httpReqs[c].resp.payload # <<>>
        /\ Answered(d) /\ httpReqs[d].route = "convert" /\ httpReqs[d].resp.status = 200

\* the handler of the request has not run
HandlerNeverRan(rq) ==
    /\ rq.calls = <<>> /\ rq.files = <<>> /\ rq.convertedFiles = <<>>
    /\ rq.zip = <<>> /\ rq.markdownDocs = <<>>

HandlerPcs == {"createFolder", "files.list", "docsList", "docsGet"} \cup PerDocumentCalls

C9_Rejected ==
    \A c \in Clients :
        LET rq == httpReqs[c]
        IN  /\ (rq.pc # "idle" /\ rq.header = NoHeader) =>
                   /\ Answered(c)
                   /\ rq.resp = ErrorResponse(401, "No token provided", "")
                   /\ HandlerNeverRan(rq)
            /\ (Answered(c) /\ rq.header # NoHeader /\ rq.token \notin ValidTokens) =>
                   /\ rq.resp = ErrorResponse(401, "Invalid or expired token", "")
                   /\ HandlerNeverRan(rq)
            /\ (rq.pc \in HandlerPcs \/ ~HandlerNeverRan(rq)
                  \/ (Answered(c) /\ rq.resp.status # 401)) =>
                   /\ rq.header # NoHeader
                   /\ rq.token \in ValidTokens

C9_Step ==
    \A c \in Completing("docs", 401) \cup Completing("convert", 401)
               \cup Completing("download", 401) :
        UNCHANGED <<convertedZip, createdDocs, driveFiles, lastConvert>>

\* C9: on every guarded route a request without Authorization header is
\* answered 401 No token provided, a request whose token fails verification is
\* answered 401 Invalid or expired token, in both cases the handler never
\* runs (nothing listed, fetched, created or archived, the stored archive
\* unchanged), and the handler runs only after a successful verification.
C9_UnauthorizedNeverRuns == [] C9_Rejected /\ [][C9_Step]_vars

\* a convert request with an expired token was answered 401 while an archive
\* is stored
C9_Witness ==
    /\ convertedZip.present
    /\ \E c \in Clients :
           /\ Answered(c) /\ httpReqs[c].route = "convert"
           /\ httpReqs[c].header # NoHeader /\ httpReqs[c].token \notin ValidTokens
           /\ httpReqs[c].resp.status = 401

\* a download request without header was answered 401 while an archive is stored
C9_WitnessNoHeader ==
    /\ convertedZip.present
    /\ \E c \in Clients :
           /\ Answered(c) /\ httpReqs[c].route = "download"
           /\ httpReqs[c].header = NoHeader
           /\ httpReqs[c].resp.status = 401

-----------------------------------------------------------------------------
(* Properties of the cursor                                                 *)

C11_StartsAtOne == requests = <<>> => currentIndex = 1

C11_Step ==
    /\ earlier' = earlier => currentIndex' >= currentIndex
    /\ earlier' # earlier => currentIndex' = 1 /\ requests' = <<>>

\* C11: the cursor is 1 before the first emission of a call, never decreases
\* during a call, and every call starts again from 1 whatever the cursor of
\* the earlier call was.
C11_CursorPrivatePerCall == [] C11_StartsAtOne /\ [][C11_Step]_vars

\* a second call inserts at 1 after the first call left the cursor above 1
C11_Witness ==
    /\ Len(earlier) >= 1 /\ earlier[1] > 1
    /\ requests # <<>> /\ requests[1].index = 1
    /\ currentIndex > 1

-----------------------------------------------------------------------------
(* Properties of the elements the transformer handles                       *)

\* the element of doc with document-order number id
NodeOf(doc, id) ==
    LET es == Preorder(doc, 1)
    IN  es[CHOOSE k \in 1..Len(es) : es[k].id = id].node

\* the element the running loop hands to addFormattedText next
CurrentElement == NodeOf(html, loops[phase][pos + 1].id)

C12_Step ==
    (phase <= NumLoops /\ IsBlank(TextContent(CurrentElement))) =>
        /\ requests' = requests
        /\ currentIndex' = currentIndex

\* C12: an element whose text content is empty or only whitespace emits no
\* operation and leaves the cursor unchanged, whatever its kind, list items
\* included.
C12_BlankEmitsNothing == [][C12_Step]_vars

\* an li whose only child is a non-blank text
SimpleItem(n) ==
    /\ n.tag = "li" /\ Len(n.kids) = 1
    /\ n.kids[1].tag = "#text" /\ ~IsBlank(n.kids[1].text)

\* a list container whose children are simple items
SimpleList(n, tag) ==
    /\ n.tag = tag /\ n.kids # <<>>
    /\ \A i \in 1..Len(n.kids) : SimpleItem(n.kids[i])

\* the bullet glyph U+2022
Bullet == <<"U+2022">>

OrdinalDigits == <<"1", "2", "3", "4", "5", "6", "7", "8", "9">>
\* the 1-based ordinal of an item, in decimal
Ordinal(i) == <<OrdinalDigits[i]>>

\* position in reqs of its k-th insertText
InsertPosition(reqs, k) ==
    CHOOSE p \in 1..Len(reqs) :
        reqs[p].op = "insertText" /\ Len(InsertOps(SubSeq(reqs, 1, p))) = k

\* C13: for a ul with n direct li children of non-blank text exactly n
\* InsertText operations are emitted, one per item in item order, each
\* inserting the bullet glyph, a space, the text of the item and a newline;
\* nothing is emitted for the ul itself.
C13_BulletPerItem ==
    (Returned /\ Len(html) = 1 /\ SimpleList(html[1], "ul")) =>
        LET items == html[1].kids
            ins == InsertOps(requests)
        IN  /\ Len(ins) = Len(items)
            /\ emitted = [i \in 1..Len(items) |-> 1 + i]
            /\ \A i \in 1..Len(items) :
                   ins[i].text = Bullet \o <<" ">> \o TextContent(items[i]) \o <<"\n">>

\* C14: for an ol with n direct li children of non-blank text one InsertText
\* per item is emitted, in item order, whose text is the 1-based ordinal, a dot,
\* a space and the text of the item, with indented list-item paragraph style;
\* nothing is emitted for the ol itself.
C14_OrdinalPerItem ==
    (Returned /\ Len(html) = 1 /\ SimpleList(html[1], "ol")) =>
        LET items == html[1].kids
            ins == InsertOps(requests)
        IN  /\ Len(ins) = Len(items)
            /\ emitted = [i \in 1..Len(items) |-> 1 + i]
            /\ \A i \in 1..Len(items) :
                   LET p == InsertPosition(requests, i)
                   IN  /\ ins[i].text
                            = Ordinal(i) \o <<".", " ">> \o TextContent(items[i]) \o <<"\n">>
                       /\ p < Len(requests)
                       /\ requests[p + 1].op = "updateParagraphStyle"
                       /\ "indentStart:36" \in requests[p + 1].style

\* the tags of the style mapping
MappedTags == {"h1", "h2", "p", "pre", "ul", "ol", "li", "blockquote"}

\* C15: an element whose tag has no entry in the style mapping and whose text
\* is non-blank has its text emitted as one InsertText without style; no text
\* is dropped because its tag is unrecognized.
C15_UnmappedTagStillEmitted ==
    Returned =>
        LET es == Preorder(html, 1)
        IN  \A k \in 1..Len(es) :
                (es[k].node.tag \notin MappedTags /\ ~IsBlank(TextContent(es[k].node))) =>
                    \E j \in 1..Len(emitted) :
                        LET p == InsertPosition(requests, j)
                        IN  /\ emitted[j] = es[k].id
                            /\ requests[p].text = TextContent(es[k].node) \o <<"\n">>
                            /\ (p = Len(requests) \/ ~IsStyleOp(requests[p + 1]))

-----------------------------------------------------------------------------
(* Properties of the classifier: the two tiers, the heading signal, purity  *)

\* C16: a text that matches exactly one pattern, which is not one of headers,
\* lists, emphasis, is classified false.
C16_OneUnimportantSignalIsFalse ==
    (/\ ncalls > 0
     /\ Cardinality(matchedPatterns) = 1
     /\ matchedPatterns \cap ImportantPatterns = {}) => verdict = FALSE

\* only a table-pipe line
C16_Witness ==
    /\ ncalls > 0
    /\ matchedPatterns = {"tables"}
    /\ content = <<"|", "a", "|">>
    /\ verdict = FALSE

\* C17: isMarkdownContent returns false only when the text matches none of
\* the ten patterns.
C17_FalseOnlyWithoutSignal ==
    (ncalls > 0 /\ verdict = FALSE) => matchedPatterns = {}

\* C17 as amended: isMarkdownContent returns false only when the text matches
\* at most one of the ten patterns and none of headers, lists, emphasis.
C17_FalseOnlyBelowBothTiers ==
    (ncalls > 0 /\ verdict = FALSE) =>
        /\ Cardinality(matchedPatterns) <= 1
        /\ matchedPatterns \cap ImportantPatterns = {}
        /\ matchedPatterns = {n \in PatternNames : PatternTest(n, content)}

\* false on a text that matches one pattern
C17_Witness ==
    /\ ncalls > 0
    /\ verdict = FALSE
    /\ Cardinality(matchedPatterns) = 1

\* C18: a text that matches none of the ten patterns is classified false; the
\* empty text and every text of whitespace only match none and are
\* classified false.
C18_NoSignalIsFalse ==
    ncalls > 0 =>
        /\ {n \in PatternNames : PatternTest(n, content)} = {} => verdict = FALSE
        /\ IsBlank(content) => (matchedPatterns = {} /\ verdict = FALSE)

\* a text of whitespace only, with a line break, was classified
C18_Witness ==
    /\ ncalls > 0
    /\ Len(content) >= 2 /\ IsBlank(content)
    /\ \E i \in 1..Len(content) : content[i] = "\n"
    /\ verdict = FALSE

\* '#', a whitespace character and a character other than a line terminator
\* occur at position i
HashSpaceAt(t, i) == t[i] = "#" /\ IsSpace(t, i + 1) /\ IsDot(t, i + 2)

\* they occur in t, but nowhere at the start of a line
HashSpaceOnlyMidLine(t) ==
    /\ \E i \in 1..Len(t) : HashSpaceAt(t, i)
    /\ \A i \in 1..Len(t) : HashSpaceAt(t, i) => ~LineStart(t, i)

\* C19: the heading signal matches only when a line begins with '#' followed
\* by whitespace; a text where this occurs only in the middle of a line and
\* which matches no other signal is classified false.
C19_HeadingOnlyAtLineStart ==
    ncalls > 0 =>
        /\ "headers" \in matchedPatterns => HasHeadingLine(content)
        /\ (HashSpaceOnlyMidLine(content) /\ matchedPatterns \subseteq {"headers"})
               => verdict = FALSE

\* C19 as amended: the heading signal matches exactly when '#', a whitespace
\* character and a character that is not a line terminator follow each other
\* anywhere in the text; a text where this occurs only in the middle of a line
\* is classified true.
C19_HeadingAnywhere ==
    ncalls > 0 =>
        /\ "headers" \in matchedPatterns <=> \E i \in 1..Len(content) : HashSpaceAt(content, i)
        /\ HashSpaceOnlyMidLine(content) => verdict = TRUE

\* 'a# a' was classified true on the heading signal alone
C19_Witness ==
    /\ ncalls > 0
    /\ content = <<"a", "#", " ", "a">>
    /\ matchedPatterns = {"headers"}
    /\ verdict = TRUE

C20_NoMatchPosition == lastIndex = [name \in PatternNames |-> 0]

C20_Step ==
    ncalls' # ncalls =>
        /\ ncalls > 0 => (verdict' = verdict /\ matchedPatterns' = matchedPatterns)
        /\ lastIndex' = lastIndex
        /\ UNCHANGED <<content, docContent, extracted, trVars, srvVars>>

\* C20: two calls of isMarkdownContent with the same text return the same
\* verdict whatever calls were made before, and a call changes no state that
\* a later call, the transformer or the batch loop reads: the pattern objects
\* keep no match position.
C20_PureAndDeterministic == [] C20_NoMatchPosition /\ [][C20_Step]_vars

\* a second call on a text whose important pattern was tested twice in each call
C20_Witness ==
    /\ ncalls >= 2
    /\ verdict = TRUE
    /\ "emphasis" \in matchedPatterns
    /\ Len(content) >= 2

-----------------------------------------------------------------------------
(* Properties of the loop of POST /api/convert                              *)

\* the call that follows a per-document call that returned, "" after the last
StageAfter(call) ==
    CASE call = "documents.get" -> "documents.create"
      [] call = "documents.create" -> "documents.batchUpdate"
      [] call = "documents.batchUpdate" -> "files.update"
      [] call = "files.update" -> "files.export"
      [] OTHER -> ""

\* C21: within one POST /api/convert the documents are processed one at a
\* time in listing order: the calls for one document are issued in their
\* stage order, each after the one before returned; the first call for a
\* later document (documents.get) is issued only after the last call for the
\* document before it returned or threw; no call goes back to an earlier
\* document; the entries of convertedFiles stand in listing order.
C21_SequentialInListingOrder ==
    \A c \in ConvertRequests :
        LET rq == httpReqs[c]
        IN  /\ \A p \in 1..(Len(rq.calls) - 1) :
                   LET a == rq.calls[p]
                       b == rq.calls[p + 1]
                   IN  /\ a.file <= b.file
                       /\ a.file = b.file /\ a.file > 0 =>
                              a.outcome = "ok" /\ b.call = StageAfter(a.call)
                       /\ a.file < b.file =>
                              /\ b.call = "documents.get"
                              /\ a.file > 0 =>
                                     \/ a.outcome # "ok"
                                     \/ a.call = "files.export"
                                     \/ a.call = "documents.get"
                                          /\ ~rq.files[a.file].body.present
            /\ \A p \in 1..(Len(rq.convertedFiles) - 1) :
                   rq.convertedFiles[p].position < rq.convertedFiles[p + 1].position
            /\ \A p \in 1..Len(rq.convertedFiles) :
                   \E q \in 1..Len(rq.calls) : rq.calls[q].file = rq.convertedFiles[p].position

\* the first of two documents failed at batchUpdate, the second was converted
C21_Witness ==
    \E c \in ConvertRequests :
        LET rq == httpReqs[c]
        IN  /\ Answered(c) /\ rq.resp.status = 200
            /\ Len(rq.convertedFiles) = 2
            /\ rq.convertedFiles[1].status = "failed"
            /\ rq.convertedFiles[2].status = "converted"
            /\ CallsFor(rq, "documents.batchUpdate", rq.convertedFiles[1].position) # {}
            /\ CallsFor(rq, "files.export", rq.convertedFiles[2].position) # {}

\* positions of the listing whose document rq fetched and received without
\* body
FetchedWithoutBody(rq) ==
    {k \in 1..Len(rq.files) :
        /\ ~rq.files[k].body.present
        /\ \E p \in CallsFor(rq, "documents.get", k) : rq.calls[p].outcome = "ok"}

\* C22: content extraction never propagates a failure: a document fetched by
\* GET /api/docs or POST /api/convert whose body is missing yields the empty
\* text, so it is passed over as non-markdown: it is not listed by /api/docs
\* and it gets no entry in convertedFiles, in particular no failed one.
C22_MissingBodyIsRejectedNotFailed ==
    \A c \in Clients :
        LET rq == httpReqs[c]
        IN  \A k \in FetchedWithoutBody(rq) :
                /\ EntriesOf(rq, k) = {}
                /\ \A p \in 1..Len(rq.markdownDocs) : rq.markdownDocs[p] # rq.files[k].name

-----------------------------------------------------------------------------
(* Properties of extractDocumentContent                                     *)

RECURSIVE RunsOfAll(_)
\* the text runs of a structural element in depth-first document order: the
\* runs of a paragraph, the rows, cells and nested elements of a table
RunsOf(element) ==
    IF element.type = "paragraph" THEN element.runs
    ELSE Concat([r \in 1..Len(element.rows) |->
                    Concat([c \in 1..Len(element.rows[r]) |->
                               RunsOfAll(element.rows[r][c])])])
RunsOfAll(elements) ==
    IF elements = <<>> THEN <<>>
    ELSE RunsOf(Head(elements)) \o RunsOfAll(Tail(elements))

WithoutNewlines(t) == SelectSeq(t, LAMBDA ch : ch # "\n")

\* the text of a paragraph: its runs one after the other
ParagraphText(element) == JoinWith(element.runs, <<>>)

\* C23: extractDocumentContent returns the text-run contents in depth-first
\* document order, the text inside table cells included, with a newline
\* separating the top-level blocks: apart from newlines the result is the
\* runs one after the other, and for a body of paragraphs it is the texts of
\* the paragraphs joined by one newline.
C23_DepthFirstBlocksJoinedByNewline ==
    extracted /\ docContent.present =>
        /\ WithoutNewlines(content) = JoinWith(RunsOfAll(docContent.content), <<>>)
        /\ (\A k \in 1..Len(docContent.content) : docContent.content[k].type = "paragraph") =>
               content = JoinWith([k \in 1..Len(docContent.content) |->
                                      ParagraphText(docContent.content[k])], <<"\n">>)

-----------------------------------------------------------------------------
(* Properties of the name check of the loops                                *)

\* the requests whose route lists the Drive
ListingRequests == {c \in Clients : httpReqs[c].route \in {"convert", "docs"}}

\* the name holds 'converted' in some mix of upper and lower case
NamedConverted(file) ==
    LET word == <<"c", "o", "n", "v", "e", "r", "t", "e", "d">>
    IN  \E i \in 1..(Len(file.name) - Len(word) + 1) :
            \A j \in 1..Len(word) : LowerChar(file.name[i + j - 1]) = word[j]

\* the source documents a run works on: those of the Drive as it was before
\* any conversion whose name does not hold 'converted' in any case
SourcePositions == {k \in 1..Len(driveFiles) : ~NamedConverted(driveFiles[k])}

\* C24: /api/convert and /api/docs pass over every listed document whose name
\* holds 'converted' in any case: no remote call is made for it and it gets no
\* entry in convertedFiles or in the list of /api/docs; so a document
\* 'Converted-<name>' made by an earlier run is never fetched again, and
\* every run works on the same source documents.
C24_ConvertedNamesAreSkipped ==
    \A c \in ListingRequests :
        LET rq == httpReqs[c]
            passed == {k \in 1..Len(rq.files) : NamedConverted(rq.files[k])}
            sources == SourcePositions
            called == {rq.calls[p].file : p \in 1..Len(rq.calls)} \ {0}
            fetched == {rq.calls[p].file :
                           p \in {q \in 1..Len(rq.calls) : rq.calls[q].call = "documents.get"}}
            entered == {rq.convertedFiles[p].position : p \in 1..Len(rq.convertedFiles)}
            listed == {rq.markdownDocs[p] : p \in 1..Len(rq.markdownDocs)}
        IN  /\ called \cap passed = {}
            /\ entered \cap passed = {}
            /\ \A k \in passed : rq.files[k].name \notin listed
            /\ called \subseteq sources
            /\ \A k \in called : rq.files[k] = driveFiles[k]
            /\ Answered(c) /\ rq.resp.status = 200 => fetched = sources

\* a second convert run listed the document 'Converted-m' made by the first
\* one and converted the source document again
C24_Witness ==
    \E c \in ConvertRequests :
        LET rq == httpReqs[c]
        IN  /\ Answered(c) /\ rq.resp.status = 200
            /\ Len(rq.files) > Len(driveFiles)
            /\ \E k \in 1..Len(rq.files) :
                   /\ k > Len(driveFiles)
                   /\ rq.files[k].name = ConvertedTitlePrefix \o <<"m">>
            /\ Len(rq.convertedFiles) = 1
            /\ rq.convertedFiles[1].status = "converted"

-----------------------------------------------------------------------------
(* Properties of GET /api/download-zip                                      *)

\* the downloads that the step answers from the handler, after authentication
DownloadsHandled ==
    {c \in Clients : /\ httpReqs[c].pc = "verify"
                     /\ httpReqs'[c].pc = "done"
                     /\ httpReqs'[c].route = "download"
                     /\ httpReqs'[c].resp.status # 401}

C25_Step ==
    /\ \A c \in DownloadsHandled :
           LET resp == httpReqs'[c].resp
           IN  IF lastConvert.any
               THEN resp.status = 200 /\ resp.payload = convertedZip.entries
               ELSE resp.status = 404 /\ resp.error = "No zip file available"
    /\ \A c \in Completing("convert", 200) : lastConvert'.any /\ convertedZip'.present
    /\ lastConvert.any => lastConvert'.any /\ convertedZip'.present

\* C25: an authenticated GET /api/download-zip is answered 404 'No zip file
\* available' exactly when no convert request has been answered 200 since the
\* process started; a convert request answered 200 stores an archive also when
\* it converted nothing, and from then on every download is answered 200.
C25_NotFoundOnlyBeforeFirstConvert == [][C25_Step]_vars

\* a download answered 200 with an archive without entries, stored by a
\* convert request that converted nothing
C25_Witness ==
    /\ lastConvert.any
    /\ \A p \in 1..Len(lastConvert.convertedFiles) :
           lastConvert.convertedFiles[p].status = "failed"
    /\ \E c \in Clients :
           /\ Answered(c) /\ httpReqs[c].route = "download"
           /\ httpReqs[c].resp.status = 200 /\ httpReqs[c].resp.payload = <<>>

-----------------------------------------------------------------------------
(* Properties of the shared OAuth2 client                                   *)

\* the requests for which the step makes a remote call of the route handler
Calling ==
    {c \in Clients : /\ httpReqs'[c].route = httpReqs[c].route
                     /\ Len(httpReqs'[c].calls) > Len(httpReqs[c].calls)}

C26_Step ==
    \A c \in Calling : oauthCreds = httpReqs[c].token

\* C26: credential isolation: every remote call made for a request is made
\* with the token that request presented, also while a request of another
\* caller with another token is in flight; the shared oauth2Client is never
\* used by one request while it holds the credentials set by another.
C26_CallsUseOwnToken == [][C26_Step]_vars

-----------------------------------------------------------------------------
(* Properties of nested elements                                            *)

\* element d lies inside element a (ids number the elements in pre-order)
Inside(doc, a, d) ==
    d > a /\ d <= a + CountElements(NodeOf(doc, a).kids)

\* C27: the transformer inserts the text of each piece of the HTML at most
\* once: no element has its text inserted twice, and of an element and an
\* element nested in it (a p inside a blockquote or an li, the li of a nested
\* list) at most one has its text inserted.
C27_TextInsertedAtMostOnce ==
    \A i \in 1..Len(emitted) : \A j \in 1..Len(emitted) :
        i # j =>
            /\ emitted[i] # emitted[j]
            /\ ~Inside(html, emitted[i], emitted[j])

-----------------------------------------------------------------------------
(* Properties of convertedFiles and the archive                             *)

WithStatus(rq, status) ==
    {p \in 1..Len(rq.convertedFiles) : rq.convertedFiles[p].status = status}

\* C28: at every point of the loop of POST /api/convert and at its end, each
\* listed document has at most one entry in convertedFiles, every entry has
\* status converted or failed, the number of files added to the archive
\* (calls of zip.addFile) is the number of converted entries, a converted
\* entry has its file in the archive under its convertedFileName and a failed
\* entry has none.
C28_EntriesMatchArchive ==
    \A c \in ConvertRequests :
        LET rq == httpReqs[c]
        IN  /\ \A k \in 1..Len(rq.files) : Cardinality(EntriesOf(rq, k)) <= 1
            /\ \A p \in 1..Len(rq.convertedFiles) :
                   /\ rq.convertedFiles[p].status \in {"converted", "failed"}
                   /\ rq.convertedFiles[p].position \in 1..Len(rq.files)
            /\ Len(rq.zip) = Cardinality(WithStatus(rq, "converted"))
            /\ \A p \in WithStatus(rq, "converted") :
                   rq.zip[Cardinality({q \in WithStatus(rq, "converted") : q <= p})]
                     = rq.convertedFiles[p].convertedFileName
            /\ \A p \in WithStatus(rq, "failed") :
                   /\ rq.convertedFiles[p].convertedFileName = <<>>
                   /\ CallsFor(rq, "files.export", rq.convertedFiles[p].position) # {} =>
                          \A q \in CallsFor(rq, "files.export", rq.convertedFiles[p].position) :
                              rq.calls[q].outcome # "ok"

\* in the middle of the loop: one document converted, one failed, the third
\* being fetched
C28_Witness ==
    \E c \in ConvertRequests :
        LET rq == httpReqs[c]
        IN  /\ rq.pc = "documents.get" /\ rq.i = 3
            /\ WithStatus(rq, "converted") # {}
            /\ WithStatus(rq, "failed") # {}
            /\ Len(rq.zip) = 1

-----------------------------------------------------------------------------
(* Properties of the response of the conversion routes                      *)

\* C29: in every conversion route (/api/convert, /api/convert-2 and
\* /api/convert-3) totalFiles of the 200 response equals the number of entries
\* of convertedFiles in the same response.
C29_TotalFilesCountsEntries ==
    \A c \in Clients :
        LET rq == httpReqs[c]
        IN  rq.route \in ConvertRoutes /\ Answered(c) /\ rq.resp.status = 200 =>
                rq.resp.totalFiles = Len(rq.resp.payload)

-----------------------------------------------------------------------------
(* Properties of zipDownloadLink                                            *)

\* the requests made by following a zipDownloadLink
LinkRequests == {c \in Clients : httpReqs[c].route = "download" /\ httpReqs[c].query # ""}

\* C30: the zipDownloadLink carries the token of the caller of the conversion
\* as a query parameter only, and /api/download-zip authenticates from the
\* Authorization header alone: a GET of the link without Authorization header
\* is answered 401 No token provided whatever token the query string holds,
\* and never returns the archive; the archive is returned only to a request
\* whose header holds a valid token.
C30_LinkWithoutHeaderIsRejected ==
    \A c \in LinkRequests :
        LET rq == httpReqs[c]
        IN  /\ rq.query = TokenOf(c)
            /\ rq.header = NoHeader =>
                   /\ Answered(c)
                   /\ rq.resp = ErrorResponse(401, "No token provided", "")
                   /\ rq.token = "undefined"
            /\ Answered(c) /\ rq.resp.status = 200 =>
                   /\ rq.header # NoHeader
                   /\ HeaderToken(rq.header) \in ValidTokens

\* the link of a conversion that stored a non-empty archive was followed
\* without header and answered 401
C30_Witness ==
    /\ convertedZip.present /\ convertedZip.entries # <<>>
    /\ \E c \in LinkRequests :
           /\ httpReqs[c].header = NoHeader
           /\ httpReqs[c].query \in ValidTokens
           /\ Answered(c) /\ httpReqs[c].resp.status = 401


=============================================================================
